---- MODULE Spec2Model ----
(***************************************************************************)
(* RecaptchaSolver of tbcpay_recaptcha/solver.py as a state machine.       *)
(*                                                                         *)
(* The solver's fields are the global variables.  Every public call        *)
(* (start, stop, get_token) is a coroutine run by a task; a coroutine runs *)
(* without interruption from one await to the next, so each action is the  *)
(* code between two awaits.  What the browser answers to an await is an    *)
(* input, drawn from the sets of replies below.                            *)
(***************************************************************************)
EXTENDS Integers, Sequences, FiniteSets, TLC

(***************************************************************************)
(* Python values.  A str is a sequence of one-character strings.           *)
(***************************************************************************)
PyNone == [type |-> "NoneType"]
PyStr(s) == [type |-> "str", v |-> s]
PyInt(n) == [type |-> "int", v |-> n]
PyFloat(n) == [type |-> "float", v |-> n]
\* an object with a .value attribute (a CDP RemoteObject)
RemoteObject(val) == [type |-> "RemoteObject", value |-> val]
\* an object without a .value attribute
PlainObject == [type |-> "object"]
\* a CDP ExceptionDetails object
ExceptionDetails == [type |-> "ExceptionDetails"]

\* bool(x)
Truthy(x) ==
    CASE x.type = "NoneType" -> FALSE
      [] x.type = "str" -> Len(x.v) > 0
      [] x.type = "int" -> x.v # 0
      [] x.type = "float" -> x.v # 0
      [] x.type = "bool" -> x.v
      [] x.type = "list" -> Len(x.v) > 0
      [] OTHER -> TRUE

\* hasattr(x, 'value')
HasValue(x) == x.type = "RemoteObject"

Rep(c, n) == [i \in 1..n |-> c]

(***************************************************************************)
(* Class constants.                                                        *)
(***************************************************************************)
RECAPTCHA_SITE_KEY_FALLBACK ==
    << "6", "L", "e", "Y", "s", "r", "Y", "Z", "A", "A",
       "A", "A", "A", "M", "h", "Y", "0", "5", "m", "7",
       "_", "A", "I", "P", "P", "f", "t", "m", "2", "v",
       "0", "A", "g", "N", "l", "2", "n", "l", "o", "P" >>
TOKEN_LIFETIME == 110
TIMEOUT == 30

(***************************************************************************)
(* Bounds of the model.                                                    *)
(***************************************************************************)
\* the clock stops advancing at MaxTime
MaxTime == 111
\* at most this many of the four grouped patterns match one page source
MaxMatches == 2
\* start() is called while fewer than MaxLaunch browsers have been launched; where
\* callers overlap, or the answers to detection are kept, while fewer than
\* MaxLaunchWide have been
MaxLaunch == 2
MaxLaunchWide == 1
\* the callers whose calls may overlap
Tasks == {"t1", "t2"}
\* how far the clock moves in one step: just short of a token's lifetime,
\* and exactly a token's lifetime
TickSteps == {TOKEN_LIFETIME - 1, TOKEN_LIFETIME}

VARIABLES
    browser,            \* self.browser: PyNone or the launched browser
    page,               \* self.page: PyNone or the loaded page
    _last_token,        \* self._last_token: PyNone or a str
    _token_timestamp,   \* self._token_timestamp: PyNone or a float
    _site_key,          \* self._site_key: a sequence of characters
    now,                \* time.time()
    task,               \* per caller: the coroutine it runs and where it is
    launched,           \* how many times zd.start() has launched a browser
    terminated,         \* how many times browser.stop() has terminated one
    _solver,            \* TBCPayService._solver: PyNone or the solver above
    scope,              \* where an "async with RecaptchaSolver()" block is
    check               \* where a check_balance_async call is, and its result

vars == <<browser, page, _last_token, _token_timestamp, _site_key, now, task,
          launched, terminated, _solver, scope, check>>

Browser == [type |-> "Browser"]
Page == [type |-> "Page"]

\* no answer yet
NoReply == [how |-> "none"]

\* a caller that runs no coroutine
\* no check_balance_async call is in progress
NoCheck ==
    [at |-> "out", posts |-> 0, response |-> NoReply, status |-> "none", error |-> <<>>,
     how |-> "none"]

Idle ==
    [pc |-> "idle", op |-> "none", force_new |-> FALSE, ret |-> "none",
     value |-> PyNone, evals |-> 0, detects |-> 0, sent_at |-> 0,
     reply |-> NoReply, stopped |-> FALSE, script_key |-> <<>>,
     js_reply |-> NoReply, html_reply |-> NoReply]

\* RecaptchaSolver.__init__
Init ==
    /\ browser = PyNone
    /\ page = PyNone
    /\ _last_token = PyNone
    /\ _token_timestamp = PyNone
    /\ _site_key = RECAPTCHA_SITE_KEY_FALLBACK
    /\ now = 1      \* time.time() is positive
    /\ task = [t \in Tasks |-> Idle]
    /\ launched = 0
    /\ terminated = 0
    /\ _solver = PyNone    \* TBCPayService.__init__
    /\ scope = "out"
    /\ check = NoCheck

\* the task's record with some fields replaced
Set(t, r) == task' = [task EXCEPT ![t] = r]
\* the coroutine returns val
Return(rec, val) == [rec EXCEPT !.pc = "done", !.ret = "return", !.value = val]
\* the coroutine raises
Raise(rec, exc) == [rec EXCEPT !.pc = "done", !.ret = "raise", !.value = PyStr(exc)]

\* no caller is being handed an answer
Quiet == \A t \in Tasks : task[t].pc # "done"

\* time passes
Tick ==
    /\ Quiet
    /\ \E d \in TickSteps :
         /\ now + d <= MaxTime
         /\ now' = now + d
    /\ UNCHANGED <<browser, page, _last_token, _token_timestamp, _site_key, task>>
    /\ UNCHANGED <<launched, terminated, _solver, scope, check>>

\* _is_token_valid with the age compared by <=
IsTokenValidAt_Le(tok, ts, t) ==
    IF ~Truthy(tok) \/ ~Truthy(ts)
    THEN FALSE
    ELSE t - ts.v <= TOKEN_LIFETIME

(***************************************************************************)
(* _is_token_valid, read at time t.                                        *)
(***************************************************************************)
IsTokenValidAt(tok, ts, t) ==
    IF ~Truthy(tok) \/ ~Truthy(ts)
    THEN FALSE
    ELSE t - ts.v < TOKEN_LIFETIME

_is_token_valid == IsTokenValidAt(_last_token, _token_timestamp, now)


(***************************************************************************)
(* What page.send answers: it raises, or returns a (result, exception)     *)
(* tuple, or returns a single object.                                      *)
(***************************************************************************)
Raised(exc) == [how |-> "raise", exc |-> exc]
Pair(result, exception) == [how |-> "tuple", result |-> result, exception |-> exception]
Single(result) == [how |-> "single", result |-> result]

\* result, exception = r if isinstance(r, tuple) else (r, None)
Unpack(r) == IF r.how = "tuple" THEN <<r.result, r.exception>> ELSE <<r.result, PyNone>>

TokA == <<"a", "b", "c", "1", "2", "3">>
TokB == <<"x", "y", "z">>

\* answers to the challenge script
EvalReplies ==
    { Raised("TimeoutError"), Raised("Exception"),
      Pair(RemoteObject(PyStr(TokA)), PyNone),
      Pair(RemoteObject(PyStr(TokB)), PyNone),
      Single(RemoteObject(PyStr(TokB))),
      Pair(RemoteObject(PyStr(<<>>)), PyNone),
      Pair(RemoteObject(PyInt(7)), PyNone),
      Pair(RemoteObject(PyNone), PyNone),
      Pair(PlainObject, PyNone),
      Pair(PyNone, PyNone),
      Pair(PyNone, ExceptionDetails),
      Pair(RemoteObject(PyStr(TokA)), ExceptionDetails) }

\* token and isinstance(token, str)
IsToken(token) == Truthy(token) /\ token.type = "str"

\* _try_get_token taking any value for a token
TokenOf_AnyValue(reply) ==
    IF reply.how = "raise"
    THEN PyNone
    ELSE LET result == Unpack(reply)[1]
             exception == Unpack(reply)[2]
         IN  IF Truthy(exception)
             THEN PyNone
             ELSE IF Truthy(result) /\ HasValue(result)
                  THEN result.value
                  ELSE PyNone

\* _try_get_token not looking at the exception of the tuple
TokenOf_NoException(reply) ==
    IF reply.how = "raise"
    THEN PyNone
    ELSE LET result == Unpack(reply)[1]
         IN  IF Truthy(result) /\ HasValue(result) /\ IsToken(result.value)
             THEN result.value
             ELSE PyNone

\* _try_get_token handing the name of a raised exception to the caller
TokenOf_Reason(reply) ==
    IF reply.how = "raise"
    THEN PyStr(<<reply.exc>>)
    ELSE LET result == Unpack(reply)[1]
             exception == Unpack(reply)[2]
         IN  IF Truthy(exception)
             THEN PyNone
             ELSE IF Truthy(result) /\ HasValue(result) /\ IsToken(result.value)
                  THEN result.value
                  ELSE PyNone

(***************************************************************************)
(* _try_get_token after its await: the token it stores and returns, or     *)
(* PyNone.                                                                 *)
(***************************************************************************)
TokenOf(reply) ==
    IF reply.how = "raise"
    THEN PyNone
    ELSE LET result == Unpack(reply)[1]
             exception == Unpack(reply)[2]
         IN  IF Truthy(exception)
             THEN PyNone
             ELSE IF Truthy(result) /\ HasValue(result) /\ IsToken(result.value)
                  THEN result.value
                  ELSE PyNone

(***************************************************************************)
(* Site keys and page sources.                                             *)
(***************************************************************************)
Key39 == <<"6">> \o Rep("k", 38)
Key31 == <<"6">> \o Rep("j", 30)
Short6 == <<"6">> \o Rep("s", 29)
BadPrefix == <<"X">> \o Rep("a", 39)

\* the validation with the length compared by >=
ValidKey_Ge(key) == Len(key) >= 30 /\ key[1] = "6"

\* len(key) > 30 and key.startswith('6')
ValidKey(key) == Len(key) > 30 /\ key[1] = "6"

\* answers to the script of detection method 1
JsReplies ==
    { Raised("Exception"),
      Pair(RemoteObject(PyStr(Key39)), PyNone),
      Pair(RemoteObject(PyStr(Key31)), PyNone),
      Single(RemoteObject(PyStr(Key31))),
      Pair(RemoteObject(PyStr(RECAPTCHA_SITE_KEY_FALLBACK)), PyNone),
      Pair(RemoteObject(PyStr(Short6)), PyNone),
      Pair(RemoteObject(PyStr(BadPrefix)), PyNone),
      Pair(RemoteObject(PyStr(<<>>)), PyNone),
      Pair(RemoteObject(PyInt(7)), PyNone),
      Pair(RemoteObject(PyNone), PyNone),
      Pair(PlainObject, PyNone),
      Pair(PyNone, PyNone),
      Pair(RemoteObject(PyStr(Key39)), ExceptionDetails) }

NoKey == [found |-> FALSE, key |-> <<>>]
Found(key) == [found |-> TRUE, key |-> key]

(***************************************************************************)
(* _detect_site_key, method 1, after its await: the key it makes active,   *)
(* or NoKey when it goes on to method 2.  A value that is no str raises in *)
(* len() or startswith(), which the inner except absorbs.                  *)
(***************************************************************************)
JsDetect(reply) ==
    IF reply.how = "raise"
    THEN NoKey
    ELSE LET result == Unpack(reply)[1]
             exception == Unpack(reply)[2]
         IN  IF ~Truthy(exception) /\ Truthy(result) /\ HasValue(result)
                /\ Truthy(result.value)
             THEN LET key == result.value
                  IN  IF key.type = "str" /\ ValidKey(key.v) THEN Found(key.v) ELSE NoKey
             ELSE NoKey

\* what method 1 comes to, over all the answers
JsOutcomes == {JsDetect(reply) : reply \in JsReplies}

(***************************************************************************)
(* A page source is a str, described by what re.search finds in it for     *)
(* each of the five patterns: nothing, or a match with its group(0), its   *)
(* group(1) and its lastindex (0 stands for None).                         *)
(***************************************************************************)
NoMatch == [matched |-> FALSE]
Match(g0, g1, lastindex) == [matched |-> TRUE, g0 |-> g0, g1 |-> g1, lastindex |-> lastindex]
Html(ms) == [type |-> "str", matches |-> ms]

\* the number of patterns, and the text each grouped pattern matches before its group
NumPatterns == 5
Lead == << <<>>, <<"g", "(", "'">>, <<"d", "=", "'">>, <<"s", ":", "'">>, <<"r", ":", "'">> >>

\* what pattern 1 can find: nothing, or 6 followed by at least 38 characters
GenericMatches ==
    {NoMatch} \cup {Match(k, <<>>, 0) : k \in {Key39, RECAPTCHA_SITE_KEY_FALLBACK}}

\* what patterns 2..5 can find: nothing, or the pattern's text around a quoted group
GroupedMatches(i) ==
    {NoMatch} \cup {Match(Lead[i] \o c \o <<"'">>, c, 1) : c \in {Key39, Key31, Short6, BadPrefix}}

\* the text fits 6[A-Za-z0-9_-]{38,}
FitsGeneric(s) == Len(s) >= 39 /\ s[1] = "6"

PageSources ==
    { Html(<<m1, m2, m3, m4, m5>>) :
        m1 \in GenericMatches, m2 \in GroupedMatches(2), m3 \in GroupedMatches(3),
        m4 \in GroupedMatches(4), m5 \in GroupedMatches(5) }

\* the sources the model draws: few grouped matches, and a group that fits the
\* generic pattern is found by the generic pattern too
SmallSources ==
    { h \in PageSources :
        /\ Cardinality({i \in 2..NumPatterns : h.matches[i].matched}) <= MaxMatches
        /\ \A i \in 2..NumPatterns :
             (h.matches[i].matched /\ FitsGeneric(h.matches[i].g1)) => h.matches[1].matched }

\* detected_key = match.group(1) if match.lastindex else match.group(0)
Candidate(m) == IF m.lastindex # 0 THEN m.g1 ELSE m.g0

\* the scan letting the first pattern that matches decide, valid or not
RECURSIVE Scan_FirstMatchOnly(_, _)
Scan_FirstMatchOnly(ms, i) ==
    IF i > NumPatterns
    THEN NoKey
    ELSE IF ms[i].matched
         THEN IF ValidKey(Candidate(ms[i])) THEN Found(Candidate(ms[i])) ELSE NoKey
         ELSE Scan_FirstMatchOnly(ms, i + 1)

\* for pattern in patterns: the first valid candidate, from pattern i on
RECURSIVE Scan(_, _)
Scan(ms, i) ==
    IF i > NumPatterns
    THEN NoKey
    ELSE IF ms[i].matched /\ ValidKey(Candidate(ms[i]))
         THEN Found(Candidate(ms[i]))
         ELSE Scan(ms, i + 1)

\* answers to the request for the page source
HtmlReplies ==
    { Raised("Exception"),
      Pair(RemoteObject(PyNone), PyNone),
      Pair(RemoteObject(PyInt(7)), PyNone),
      Pair(PlainObject, PyNone),
      Pair(PyNone, PyNone),
      Pair(RemoteObject(Html(<<NoMatch, NoMatch, NoMatch, NoMatch, NoMatch>>)), ExceptionDetails) }
    \cup {Pair(RemoteObject(h), PyNone) : h \in SmallSources}
    \cup {Single(RemoteObject(Html(<<Match(Key39, <<>>, 0), NoMatch, NoMatch, NoMatch, NoMatch>>)))}

(***************************************************************************)
(* _detect_site_key, method 2, after its await: the key it makes active.   *)
(* A value that is no str raises in re.search, which the outer except      *)
(* turns into the fallback.                                                *)
(***************************************************************************)
HtmlDetect(reply) ==
    IF reply.how = "raise"
    THEN RECAPTCHA_SITE_KEY_FALLBACK
    ELSE LET result == Unpack(reply)[1]
             exception == Unpack(reply)[2]
         IN  IF Truthy(exception) \/ ~Truthy(result) \/ ~HasValue(result)
             THEN RECAPTCHA_SITE_KEY_FALLBACK
             ELSE LET html == result.value
                  IN  IF html.type # "str"
                      THEN RECAPTCHA_SITE_KEY_FALLBACK
                      ELSE IF Scan(html.matches, 1).found
                           THEN Scan(html.matches, 1).key
                           ELSE RECAPTCHA_SITE_KEY_FALLBACK

\* what method 2 comes to, over all the answers
HtmlOutcomes == {HtmlDetect(reply) : reply \in HtmlReplies}

\* the launches made and under way are below the bound n
MayLaunch(n) == launched + Cardinality({u \in Tasks : task[u].pc = "start_launch"}) < n

(***************************************************************************)
(* start(): three awaits, each of which the browser may answer by raising. *)
(***************************************************************************)
StartCall(t) ==
    /\ Quiet
    /\ task[t].pc = "idle"
    /\ Set(t, [task[t] EXCEPT !.pc = "start_launch", !.op = "start"])
    /\ UNCHANGED <<browser, page, _last_token, _token_timestamp, _site_key, now>>
    /\ UNCHANGED <<launched, terminated, _solver, scope, check>>

\* self.browser = await zd.start(...), then self.browser.get(...) is awaited
StartLaunched(t) ==
    /\ Quiet
    /\ task[t].pc = "start_launch"
    /\ \E ok \in BOOLEAN :
         IF ok
         THEN /\ browser' = Browser
              /\ launched' = launched + 1
              /\ Set(t, [task[t] EXCEPT !.pc = "start_get"])
         ELSE /\ browser' = browser
              /\ launched' = launched
              /\ Set(t, Raise(task[t], "Exception"))
    /\ UNCHANGED <<page, _last_token, _token_timestamp, _site_key, now>>
    /\ UNCHANGED <<terminated, _solver, scope, check>>

\* self.page = await self.browser.get(...), then asyncio.sleep(3) is awaited
StartLoaded(t) ==
    /\ Quiet
    /\ task[t].pc = "start_get"
    /\ \E ok \in BOOLEAN :
         IF ok
         THEN /\ page' = Page
              /\ Set(t, [task[t] EXCEPT !.pc = "start_sleep"])
         ELSE /\ page' = page
              /\ Set(t, Raise(task[t], "Exception"))
    /\ UNCHANGED <<browser, _last_token, _token_timestamp, _site_key, now>>
    /\ UNCHANGED <<launched, terminated, _solver, scope, check>>

\* the settle delay is over
StartReady(t) ==
    /\ Quiet
    /\ task[t].pc = "start_sleep"
    /\ Set(t, Return(task[t], PyNone))
    /\ UNCHANGED <<browser, page, _last_token, _token_timestamp, _site_key, now>>
    /\ UNCHANGED <<launched, terminated, _solver, scope, check>>

(***************************************************************************)
(* stop()                                                                  *)
(***************************************************************************)
\* stop() awaiting browser.stop() without looking at self.browser
StopCall_NoGuard(t) ==
    /\ Quiet
    /\ task[t].pc = "idle"
    /\ Set(t, [task[t] EXCEPT !.pc = "stop_wait", !.op = "stop"])
    /\ UNCHANGED <<browser, page, _last_token, _token_timestamp, _site_key, now>>
    /\ UNCHANGED <<launched, terminated, _solver, scope, check>>

\* if self.browser: await self.browser.stop()
StopCall(t) ==
    /\ Quiet
    /\ task[t].pc = "idle"
    /\ IF Truthy(browser)
       THEN Set(t, [task[t] EXCEPT !.pc = "stop_wait", !.op = "stop"])
       ELSE Set(t, Return([task[t] EXCEPT !.op = "stop"], PyNone))
    /\ UNCHANGED <<browser, page, _last_token, _token_timestamp, _site_key, now>>
    /\ UNCHANGED <<launched, terminated, _solver, scope, check>>

\* stop() not resetting the site key
StopClears_KeepsKey ==
    /\ browser' = PyNone
    /\ page' = PyNone
    /\ _last_token' = PyNone
    /\ _token_timestamp' = PyNone
    /\ _site_key' = _site_key

\* the fields stop() clears once the browser has stopped
StopClears ==
    /\ browser' = PyNone
    /\ page' = PyNone
    /\ _last_token' = PyNone
    /\ _token_timestamp' = PyNone
    /\ _site_key' = RECAPTCHA_SITE_KEY_FALLBACK

StopStopped(t) ==
    /\ Quiet
    /\ task[t].pc = "stop_wait"
    /\ \E ok \in BOOLEAN :
         IF ok
         THEN /\ StopClears
              /\ terminated' = terminated + 1
              /\ Set(t, Return([task[t] EXCEPT !.stopped = TRUE], PyNone))
         ELSE /\ UNCHANGED <<browser, page, _last_token, _token_timestamp, _site_key>>
              /\ terminated' = terminated
              /\ Set(t, Raise(task[t], "Exception"))
    /\ UNCHANGED now
    /\ UNCHANGED <<launched, _solver, scope, check>>

(***************************************************************************)
(* get_token()                                                             *)
(***************************************************************************)
\* _try_get_token up to its await: the script is sent to the page; without a
\* page the attribute lookup raises and _try_get_token returns None at once
Evaluate(rec, pc, key) ==
    IF Truthy(page)
    THEN [rec EXCEPT !.pc = pc, !.evals = @ + 1, !.sent_at = now, !.reply = NoReply,
                     !.script_key = key]
    ELSE Return(rec, PyNone)

\* get_token never serving the cache
GetTokenCall_NoCache(t, force_new) ==
    /\ Quiet
    /\ task[t].pc = "idle"
    /\ LET rec == [task[t] EXCEPT !.op = "get_token", !.force_new = force_new]
       IN  IF ~Truthy(browser) \/ ~Truthy(page)
           THEN Set(t, Raise(rec, "RuntimeError"))
           ELSE Set(t, Evaluate(rec, "eval1", _site_key))
    /\ UNCHANGED <<browser, page, _last_token, _token_timestamp, _site_key, now>>
    /\ UNCHANGED <<launched, terminated, _solver, scope, check>>

\* get_token serving the cache whatever force_new says
GetTokenCall_NoForce(t, force_new) ==
    /\ Quiet
    /\ task[t].pc = "idle"
    /\ LET rec == [task[t] EXCEPT !.op = "get_token", !.force_new = force_new]
       IN  IF ~Truthy(browser) \/ ~Truthy(page)
           THEN Set(t, Raise(rec, "RuntimeError"))
           ELSE IF _is_token_valid
                THEN Set(t, Return(rec, _last_token))
                ELSE Set(t, Evaluate(rec, "eval1", _site_key))
    /\ UNCHANGED <<browser, page, _last_token, _token_timestamp, _site_key, now>>
    /\ UNCHANGED <<launched, terminated, _solver, scope, check>>

\* get_token checking the browser only, not the page
GetTokenCall_NoPageCheck(t, force_new) ==
    /\ Quiet
    /\ task[t].pc = "idle"
    /\ LET rec == [task[t] EXCEPT !.op = "get_token", !.force_new = force_new]
       IN  IF ~Truthy(browser)
           THEN Set(t, Raise(rec, "RuntimeError"))
           ELSE IF ~force_new /\ _is_token_valid
                THEN Set(t, Return(rec, _last_token))
                ELSE Set(t, Evaluate(rec, "eval1", _site_key))
    /\ UNCHANGED <<browser, page, _last_token, _token_timestamp, _site_key, now>>
    /\ UNCHANGED <<launched, terminated, _solver, scope, check>>

\* get_token holding back a caller while another call's evaluation is in flight
GetTokenCall_OneAtATime(t, force_new) ==
    /\ Quiet
    /\ task[t].pc = "idle"
    /\ LET rec == [task[t] EXCEPT !.op = "get_token", !.force_new = force_new]
       IN  IF ~Truthy(browser) \/ ~Truthy(page)
           THEN Set(t, Raise(rec, "RuntimeError"))
           ELSE IF ~force_new /\ _is_token_valid
                THEN Set(t, Return(rec, _last_token))
                ELSE IF \E u \in Tasks \ {t} : task[u].pc \in {"eval1", "eval2"}
                     THEN Set(t, [rec EXCEPT !.pc = "held"])
                     ELSE Set(t, Evaluate(rec, "eval1", _site_key))
    /\ UNCHANGED <<browser, page, _last_token, _token_timestamp, _site_key, now>>
    /\ UNCHANGED <<launched, terminated, _solver, scope, check>>

\* get_token up to its first await
GetTokenCall(t, force_new) ==
    /\ Quiet
    /\ task[t].pc = "idle"
    /\ LET rec == [task[t] EXCEPT !.op = "get_token", !.force_new = force_new]
       IN  IF ~Truthy(browser) \/ ~Truthy(page)
           THEN Set(t, Raise(rec, "RuntimeError"))
           ELSE IF ~force_new /\ _is_token_valid
                THEN Set(t, Return(rec, _last_token))
                ELSE Set(t, Evaluate(rec, "eval1", _site_key))
    /\ UNCHANGED <<browser, page, _last_token, _token_timestamp, _site_key, now>>
    /\ UNCHANGED <<launched, terminated, _solver, scope, check>>

\* the retry sending the script built with the key that was active before detection
AfterDetect_OldKey(t, rec, key) ==
    /\ _site_key' = key
    /\ IF key # RECAPTCHA_SITE_KEY_FALLBACK
       THEN Set(t, Evaluate(rec, "eval2", _site_key))
       ELSE Set(t, Return(rec, PyNone))

\* get_token once _detect_site_key has made key the active key: the retry
AfterDetect(t, rec, key) ==
    /\ _site_key' = key
    /\ IF key # RECAPTCHA_SITE_KEY_FALLBACK
       THEN Set(t, Evaluate(rec, "eval2", key))
       ELSE Set(t, Return(rec, PyNone))

\* _detect_site_key, method 2, up to its await; without a page the attribute
\* lookup raises and the outer except makes the fallback the active key
DetectHtml(t, rec) ==
    IF Truthy(page)
    THEN /\ Set(t, [rec EXCEPT !.pc = "detect_html"])
         /\ UNCHANGED _site_key
    ELSE AfterDetect(t, rec, RECAPTCHA_SITE_KEY_FALLBACK)

\* _detect_site_key, method 1, up to its await
DetectJs(t, rec) ==
    IF Truthy(page)
    THEN /\ Set(t, [rec EXCEPT !.pc = "detect_js"])
         /\ UNCHANGED _site_key
    ELSE DetectHtml(t, rec)

\* the first evaluation answers, and a failure starts detection whatever the active key
Eval1Done_AlwaysDetect(t) ==
    /\ Quiet
    /\ task[t].pc = "eval1"
    /\ \E reply \in EvalReplies :
         LET token == TokenOf(reply)
             rec == [task[t] EXCEPT !.sent_at = 0, !.reply = reply, !.script_key = <<>>]
         IN  IF token # PyNone
             THEN /\ _last_token' = token
                  /\ _token_timestamp' = PyFloat(now)
                  /\ Set(t, Return(rec, token))
                  /\ UNCHANGED _site_key
             ELSE /\ UNCHANGED <<_last_token, _token_timestamp>>
                  /\ DetectJs(t, [rec EXCEPT !.detects = @ + 1])
    /\ UNCHANGED <<browser, page, now>>
    /\ UNCHANGED <<launched, terminated, _solver, scope, check>>

\* the first evaluation answers
Eval1Done(t) ==
    /\ Quiet
    /\ task[t].pc = "eval1"
    /\ \E reply \in EvalReplies :
         LET token == TokenOf(reply)
             rec == [task[t] EXCEPT !.sent_at = 0, !.reply = reply, !.script_key = <<>>]
         IN  IF token # PyNone
             THEN /\ _last_token' = token
                  /\ _token_timestamp' = PyFloat(now)
                  /\ Set(t, Return(rec, token))
                  /\ UNCHANGED _site_key
             ELSE /\ UNCHANGED <<_last_token, _token_timestamp>>
                  /\ IF _site_key = RECAPTCHA_SITE_KEY_FALLBACK
                     THEN DetectJs(t, [rec EXCEPT !.detects = @ + 1])
                     ELSE /\ Set(t, Return(rec, PyNone))
                          /\ UNCHANGED _site_key
    /\ UNCHANGED <<browser, page, now>>
    /\ UNCHANGED <<launched, terminated, _solver, scope, check>>

\* detection method 1 answers
DetectJsDone(t) ==
    /\ Quiet
    /\ task[t].pc = "detect_js"
    /\ \E found \in JsOutcomes :
         IF found.found
         THEN AfterDetect(t, task[t], found.key)
         ELSE DetectHtml(t, task[t])
    /\ UNCHANGED <<browser, page, _last_token, _token_timestamp, now>>
    /\ UNCHANGED <<launched, terminated, _solver, scope, check>>

\* detection method 2 answers
DetectHtmlDone(t) ==
    /\ Quiet
    /\ task[t].pc = "detect_html"
    /\ \E key \in HtmlOutcomes : AfterDetect(t, task[t], key)
    /\ UNCHANGED <<browser, page, _last_token, _token_timestamp, now>>
    /\ UNCHANGED <<launched, terminated, _solver, scope, check>>

\* the retried evaluation, retried again when it fails
Eval2Done_Again(t) ==
    /\ Quiet
    /\ task[t].pc = "eval2"
    /\ \E reply \in EvalReplies :
         LET token == TokenOf(reply)
             rec == [task[t] EXCEPT !.sent_at = 0, !.reply = reply, !.script_key = <<>>]
         IN  IF token # PyNone
             THEN /\ _last_token' = token
                  /\ _token_timestamp' = PyFloat(now)
                  /\ Set(t, Return(rec, token))
             ELSE /\ UNCHANGED <<_last_token, _token_timestamp>>
                  /\ Set(t, IF rec.evals < 3 THEN Evaluate(rec, "eval2", _site_key) ELSE Return(rec, PyNone))
    /\ UNCHANGED <<browser, page, _site_key, now>>
    /\ UNCHANGED <<launched, terminated, _solver, scope, check>>

\* the retried evaluation answers
Eval2Done(t) ==
    /\ Quiet
    /\ task[t].pc = "eval2"
    /\ \E reply \in EvalReplies :
         LET token == TokenOf(reply)
             rec == [task[t] EXCEPT !.sent_at = 0, !.reply = reply, !.script_key = <<>>,
                                    !.js_reply = NoReply, !.html_reply = NoReply]
         IN  IF token # PyNone
             THEN /\ _last_token' = token
                  /\ _token_timestamp' = PyFloat(now)
                  /\ Set(t, Return(rec, token))
             ELSE /\ UNCHANGED <<_last_token, _token_timestamp>>
                  /\ Set(t, Return(rec, PyNone))
    /\ UNCHANGED <<browser, page, _site_key, now>>
    /\ UNCHANGED <<launched, terminated, _solver, scope, check>>

\* the caller has its answer and may call again
Finish(t) ==
    /\ task[t].pc = "done"
    /\ Set(t, Idle)
    /\ UNCHANGED <<browser, page, _last_token, _token_timestamp, _site_key, now>>
    /\ UNCHANGED <<launched, terminated, _solver, scope, check>>

\* no other caller is inside a call
Alone(t) == \A u \in Tasks \ {t} : task[u].pc = "idle"

(***************************************************************************)
(* Calls may overlap: any caller may call while another is suspended in an *)
(* await.  A call that has ended is handed to its caller before anything   *)
(* else runs (Quiet).                                                      *)
(***************************************************************************)
\* start() called by one of the overlapping callers
OverlapStartCall(t) == MayLaunch(MaxLaunchWide) /\ StartCall(t)

Next ==
    \/ Tick
    \/ \E t \in Tasks :
         \/ OverlapStartCall(t)
         \/ StopCall(t)
         \/ \E force_new \in BOOLEAN : GetTokenCall(t, force_new)
         \/ StartLaunched(t)
         \/ StartLoaded(t)
         \/ StartReady(t)
         \/ StopStopped(t)
         \/ Eval1Done(t)
         \/ DetectJsDone(t)
         \/ DetectHtmlDone(t)
         \/ Eval2Done(t)
         \/ Finish(t)

Spec == Init /\ [][Next]_vars

\* calls made one after the other: a caller calls when no other call is running
SeqStartCall(t) == Alone(t) /\ MayLaunch(MaxLaunch) /\ StartCall(t)
SeqStopCall(t) == Alone(t) /\ StopCall(t)
SeqGetTokenCall(t, force_new) == Alone(t) /\ GetTokenCall(t, force_new)

SeqNext ==
    \/ Tick
    \/ \E t \in Tasks :
         \/ SeqStartCall(t)
         \/ SeqStopCall(t)
         \/ \E force_new \in BOOLEAN : SeqGetTokenCall(t, force_new)
         \/ StartLaunched(t)
         \/ StartLoaded(t)
         \/ StartReady(t)
         \/ StopStopped(t)
         \/ Eval1Done(t)
         \/ DetectJsDone(t)
         \/ DetectHtmlDone(t)
         \/ Eval2Done(t)
         \/ Finish(t)

SeqSpec == Init /\ [][SeqNext]_vars

(***************************************************************************)
(* Detection with its answers kept in the caller's record: the same two    *)
(* methods, drawn answer by answer.                                        *)
(***************************************************************************)
\* detection method 1 answers
DetectJsSeen(t) ==
    /\ Quiet
    /\ task[t].pc = "detect_js"
    /\ \E reply \in JsReplies :
         LET rec == [task[t] EXCEPT !.js_reply = reply]
             found == JsDetect(reply)
         IN  IF found.found
             THEN AfterDetect(t, rec, found.key)
             ELSE DetectHtml(t, rec)
    /\ UNCHANGED <<browser, page, _last_token, _token_timestamp, now>>
    /\ UNCHANGED <<launched, terminated, _solver, scope, check>>

\* detection method 2 letting a raised exception through to get_token's caller
DetectHtmlSeen_Propagates(t) ==
    /\ Quiet
    /\ task[t].pc = "detect_html"
    /\ \E reply \in HtmlReplies :
         LET rec == [task[t] EXCEPT !.html_reply = reply]
         IN  IF reply.how = "raise"
             THEN /\ Set(t, Raise(rec, reply.exc))
                  /\ UNCHANGED _site_key
             ELSE AfterDetect(t, rec, HtmlDetect(reply))
    /\ UNCHANGED <<browser, page, _last_token, _token_timestamp, now>>
    /\ UNCHANGED <<launched, terminated, _solver, scope, check>>

\* detection method 2 answers
DetectHtmlSeen(t) ==
    /\ Quiet
    /\ task[t].pc = "detect_html"
    /\ \E reply \in HtmlReplies :
         AfterDetect(t, [task[t] EXCEPT !.html_reply = reply], HtmlDetect(reply))
    /\ UNCHANGED <<browser, page, _last_token, _token_timestamp, now>>
    /\ UNCHANGED <<launched, terminated, _solver, scope, check>>

\* start() awaited by the one caller at work
DetectStartCall(t) == Alone(t) /\ OverlapStartCall(t)

DetectNext ==
    \E t \in Tasks :
        \/ DetectStartCall(t)
        \/ \E force_new \in BOOLEAN : SeqGetTokenCall(t, force_new)
        \/ StartLaunched(t)
        \/ StartLoaded(t)
        \/ StartReady(t)
        \/ Eval1Done(t)
        \/ DetectJsSeen(t)
        \/ DetectHtmlSeen(t)
        \/ Eval2Done(t)
        \/ Finish(t)

DetectSpec == Init /\ [][DetectNext]_vars

(***************************************************************************)
(* Scoped use: async with RecaptchaSolver() as solver: <body>, the body    *)
(* being get_recaptcha_token's "return await solver.get_token(...)" or a   *)
(* body that raises.  One caller runs the block.                           *)
(***************************************************************************)
\* get_token up to its first await, as the record of the coroutine
GetTokenBegin(force_new) ==
    LET rec == [Idle EXCEPT !.op = "get_token", !.force_new = force_new]
    IN  IF ~Truthy(browser) \/ ~Truthy(page)
        THEN Raise(rec, "RuntimeError")
        ELSE IF ~force_new /\ _is_token_valid
             THEN Return(rec, _last_token)
             ELSE Evaluate(rec, "eval1", _site_key)

\* stop() up to its await, as the record of the coroutine
StopBegin ==
    IF Truthy(browser)
    THEN [Idle EXCEPT !.pc = "stop_wait", !.op = "stop"]
    ELSE Return([Idle EXCEPT !.op = "stop"], PyNone)

\* the block is entered: __aenter__ awaits self.start()
ScopeEnter(t) ==
    /\ scope = "out"
    /\ Alone(t)
    /\ StartCall(t)

\* start() has ended.  If it returned, __aenter__ returns self and the body runs up
\* to its first await: it calls get_token, or it raises and __aexit__ awaits
\* self.stop().  If it raised, __aenter__ raises and the exception leaves the
\* block: __aexit__ is not run
ScopeEntered(t) ==
    /\ scope = "out"
    /\ task[t].pc = "done" /\ task[t].op = "start"
    /\ IF task[t].ret = "return"
       THEN \/ /\ scope' = "body"
               /\ \E force_new \in BOOLEAN : Set(t, GetTokenBegin(force_new))
            \/ /\ scope' = "exit"
               /\ Set(t, StopBegin)
       ELSE /\ scope' = "ended"
            /\ Set(t, Idle)
    /\ UNCHANGED <<browser, page, _last_token, _token_timestamp, _site_key, now>>
    /\ UNCHANGED <<launched, terminated, _solver, check>>

\* the body's get_token has ended and the body returns: __aexit__ awaits self.stop()
ScopeBodyDone(t) ==
    /\ scope = "body"
    /\ task[t].pc = "done" /\ task[t].op = "get_token"
    /\ scope' = "exit"
    /\ Set(t, StopBegin)
    /\ UNCHANGED <<browser, page, _last_token, _token_timestamp, _site_key, now>>
    /\ UNCHANGED <<launched, terminated, _solver, check>>

\* __aexit__ has ended: the block is left
ScopeExited(t) ==
    /\ scope = "exit"
    /\ task[t].pc = "done" /\ task[t].op = "stop"
    /\ scope' = "ended"
    /\ Set(t, Idle)
    /\ UNCHANGED <<browser, page, _last_token, _token_timestamp, _site_key, now>>
    /\ UNCHANGED <<launched, terminated, _solver, check>>

ScopeNext ==
    \/ Tick
    \/ \E t \in Tasks :
         \/ ScopeEnter(t)
         \/ StartLaunched(t)
         \/ StartLoaded(t)
         \/ StartReady(t)
         \/ ScopeEntered(t)
         \/ Eval1Done(t)
         \/ DetectJsDone(t)
         \/ DetectHtmlDone(t)
         \/ Eval2Done(t)
         \/ ScopeBodyDone(t)
         \/ StopStopped(t)
         \/ ScopeExited(t)

ScopeSpec == Init /\ [][ScopeNext]_vars

(***************************************************************************)
(* TBCPayService.check_balance_async, one call at a time.  A result record *)
(* is [status, error]; a message is a tuple of its parts.                  *)
(***************************************************************************)
Solver == [type |-> "RecaptchaSolver"]
PyBool(b) == [type |-> "bool", v |-> b]
PyList(l) == [type |-> "list", v |-> l]
PyDict(d) == [type |-> "dict", v |-> d]

\* the stepParameters of a reply: a list of {key, value} items, or something else
GoodItem == PyDict([key |-> PyStr(<<"D", "E", "B", "T">>), value |-> PyStr(<<"5">>)])
NoKeyItem == PyDict([value |-> PyStr(<<"5">>)])
StepParameters == {PyList(<<GoodItem>>), PyList(<<>>), PyList(<<NoKeyItem>>), PyStr(<<"x">>)}

\* the 'data' of a reply
DataValues == {PyNone, PyStr(<<"x">>)} \cup {PyDict([stepParameters |-> sp]) : sp \in StepParameters}

\* the 'errors' of a reply
ErrorValues == {PyNone, PyStr(<<"denied">>), PyList(<<PyStr(<<"denied">>)>>)}

\* what response.json() gives: it raises, or a list, or a dict
Bodies ==
    {[kind |-> "text"], [kind |-> "list"]}
    \cup {[kind |-> "dict", success |-> PyBool(sc), data |-> d, errors |-> e] :
            sc \in BOOLEAN, d \in DataValues, e \in ErrorValues}

\* what self.session.post(...) gives: it raises, or a response
Responses ==
    {[how |-> "raise", exc |-> exc] : exc \in {"Timeout", "ConnectionError"}}
    \cup {[how |-> "response", status_code |-> 500, body |-> [kind |-> "text"]]}
    \cup {[how |-> "response", status_code |-> 200, body |-> b] : b \in Bodies}

Err(msg) == [how |-> "return", status |-> "error", error |-> msg]
Success == [how |-> "return", status |-> "success", error |-> <<>>]
Thrown(exc) == [how |-> "raise", exc |-> exc]

\* _extract_error
ExtractError(data) ==
    IF Truthy(data.errors)
    THEN IF data.errors.type = "list"
         THEN <<"joined", data.errors.v>>
         ELSE <<"str", data.errors>>
    ELSE <<"Unknown error">>

\* _parse_response: a record, or the exception its lookups raise
ParseResponse(data) ==
    IF data.data.type # "dict"
    THEN Thrown("AttributeError")
    ELSE LET step_params == data.data.v.stepParameters
         IN  IF step_params.type # "list"
             THEN Err(<<"Invalid response format">>)
             ELSE IF \E i \in 1..Len(step_params.v) : "key" \notin DOMAIN step_params.v[i].v
                  THEN Thrown("KeyError")
                  ELSE Success

\* the try block of check_balance_async from the response on
Handle(response) ==
    IF response.how = "raise"
    THEN Thrown(response.exc)
    ELSE IF response.status_code = 200
         THEN IF response.body.kind = "text"
              THEN Thrown("JSONDecodeError")
              ELSE IF response.body.kind = "list"
                   THEN Thrown("AttributeError")
                   ELSE IF Truthy(response.body.success) /\ Truthy(response.body.data)
                        THEN ParseResponse(response.body)
                        ELSE Err(ExtractError(response.body))
         ELSE Err(<<"HTTP", response.status_code>>)

\* the except clauses letting everything but a request timeout through
Caught_TimeoutOnly(outcome) ==
    IF outcome.how = "raise"
    THEN IF outcome.exc = "Timeout"
         THEN Err(<<"Request timeout">>)
         ELSE [how |-> "raise", status |-> "none", error |-> <<outcome.exc>>]
    ELSE outcome

\* the except clauses of check_balance_async
Caught(outcome) ==
    IF outcome.how = "raise"
    THEN IF outcome.exc = "Timeout"
         THEN Err(<<"Request timeout">>)
         ELSE Err(<<outcome.exc>>)
    ELSE outcome

\* the call returns the record r, having sent posts requests
Returned(r, posts, response) ==
    [at |-> "returned", posts |-> posts, response |-> response,
     status |-> r.status, error |-> r.error, how |-> r.how]

\* check_balance_async up to its first await: _ensure_solver creates the solver and
\* awaits its start(), or the solver is there and get_token is awaited
CheckCall(t) ==
    /\ Quiet
    /\ Alone(t)
    /\ task[t].pc = "idle"
    /\ check.at = "out"
    /\ check' = [NoCheck EXCEPT !.at = "token"]
    /\ IF _solver = PyNone
       THEN /\ _solver' = Solver
            /\ Set(t, [Idle EXCEPT !.pc = "start_launch", !.op = "start"])
       ELSE /\ _solver' = _solver
            /\ Set(t, GetTokenBegin(FALSE))
    /\ UNCHANGED <<browser, page, _last_token, _token_timestamp, _site_key, now>>
    /\ UNCHANGED <<launched, terminated, scope>>

\* start() has ended: get_token is awaited, or the exception reaches the except clause
SvcStarted(t) ==
    /\ check.at = "token"
    /\ task[t].pc = "done" /\ task[t].op = "start"
    /\ IF task[t].ret = "raise"
       THEN /\ check' = Returned(Caught(Thrown(task[t].value.v)), 0, NoReply)
            /\ Set(t, Idle)
       ELSE /\ check' = check
            /\ Set(t, GetTokenBegin(FALSE))
    /\ UNCHANGED <<browser, page, _last_token, _token_timestamp, _site_key, now>>
    /\ UNCHANGED <<launched, terminated, _solver, scope>>

\* get_token has ended: without a token the error record is returned; with one the
\* request is sent (session.post does not await) and its outcome is returned
SvcTokenDone(t) ==
    /\ check.at = "token"
    /\ task[t].pc = "done" /\ task[t].op = "get_token"
    /\ IF task[t].ret = "raise"
       THEN check' = Returned(Caught(Thrown(task[t].value.v)), 0, NoReply)
       ELSE IF ~Truthy(task[t].value)
            THEN check' = Returned(Err(<<"Failed to get reCAPTCHA token">>), 0, NoReply)
            ELSE \E response \in Responses :
                     check' = Returned(Caught(Handle(response)), 1, response)
    /\ Set(t, Idle)
    /\ UNCHANGED <<browser, page, _last_token, _token_timestamp, _site_key, now>>
    /\ UNCHANGED <<launched, terminated, _solver, scope>>

\* the caller has the record and may call again
SvcReturn ==
    /\ check.at = "returned"
    /\ check' = NoCheck
    /\ UNCHANGED <<browser, page, _last_token, _token_timestamp, _site_key, now, task>>
    /\ UNCHANGED <<launched, terminated, _solver, scope>>

ServiceNext ==
    \/ Tick
    \/ SvcReturn
    \/ \E t \in Tasks :
         \/ CheckCall(t)
         \/ StartLaunched(t)
         \/ StartLoaded(t)
         \/ StartReady(t)
         \/ SvcStarted(t)
         \/ Eval1Done(t)
         \/ DetectJsDone(t)
         \/ DetectHtmlDone(t)
         \/ Eval2Done(t)
         \/ SvcTokenDone(t)

ServiceSpec == Init /\ [][ServiceNext]_vars

(***************************************************************************)
(* Properties.                                                             *)
(***************************************************************************)
\* the session is started: get_token's guard passes
Started == Truthy(browser) /\ Truthy(page)

\* caller t makes the call op in this step
Calls(t, op) == task[t].pc = "idle" /\ task'[t].pc # "idle" /\ task'[t].op = op

\* the answer is a non-empty str value with no exception
GoodReply(r) ==
    /\ r.how \in {"tuple", "single"}
    /\ r.how = "tuple" => r.exception = PyNone
    /\ r.result.type = "RemoteObject"
    /\ r.result.value.type = "str"
    /\ Len(r.result.value.v) > 0

\* the ages at which the validity check is tried
Ages == 0..(2 * TOKEN_LIFETIME)

\* the validity check over every storing time and every age: true below 110, false from 110 on
WindowAt(ts) ==
    \A age \in Ages :
        IsTokenValidAt(PyStr(TokA), PyFloat(ts), ts + age) <=> age < 110
Window == \A ts \in 1..(MaxTime + 1) : WindowAt(ts)

\* with no token stored the check is false at every time
NeverValidEmpty ==
    \A t \in 1..(MaxTime + 1) :
        /\ ~IsTokenValidAt(PyNone, PyNone, t)
        /\ ~IsTokenValidAt(PyNone, PyFloat(1), t)

(***************************************************************************)
(* C1: a token stored at time T is valid at every check time T' with       *)
(* T' - T < 110 and invalid at every T' with T' - T >= 110; with no token  *)
(* stored the check is false.                                              *)
(***************************************************************************)
C1_ValidityWindow ==
    /\ Window
    /\ NeverValidEmpty
    /\ _last_token # PyNone =>
         /\ _token_timestamp # PyNone
         /\ _is_token_valid <=> now - _token_timestamp.v < 110
    /\ _last_token = PyNone => ~_is_token_valid

\* a stored token that has just reached its lifetime
C1_Witness ==
    /\ _last_token # PyNone
    /\ now - _token_timestamp.v = TOKEN_LIFETIME
    /\ ~_is_token_valid

(***************************************************************************)
(* C2: get_token with force_new false on a started session whose cached    *)
(* token is valid returns the cached token at once, with no evaluation and *)
(* no detection, and leaves the token, its timestamp and the site key as   *)
(* they were.                                                              *)
(***************************************************************************)
C2_CacheHit ==
    [][\A t \in Tasks :
         (Calls(t, "get_token") /\ ~task'[t].force_new /\ Started /\ _is_token_valid) =>
            /\ task'[t].pc = "done"
            /\ task'[t].ret = "return"
            /\ task'[t].value = _last_token
            /\ task'[t].evals = 0
            /\ task'[t].detects = 0
            /\ UNCHANGED <<_last_token, _token_timestamp, _site_key>>]_vars

\* a call served from a cached token that is 109 old
C2_Witness ==
    \E t \in Tasks :
        /\ task[t].pc = "done" /\ task[t].op = "get_token" /\ ~task[t].force_new
        /\ task[t].ret = "return" /\ task[t].value = _last_token
        /\ task[t].evals = 0
        /\ _last_token # PyNone
        /\ now - _token_timestamp.v = TOKEN_LIFETIME - 1

(***************************************************************************)
(* C3: get_token with force_new true on a started session sends the        *)
(* challenge script even when the cached token is valid, and whenever it   *)
(* returns it has evaluated at least once.                                 *)
(***************************************************************************)
C3_ForceNew ==
    [][\A t \in Tasks :
         /\ (Calls(t, "get_token") /\ task'[t].force_new /\ Started) =>
               /\ task'[t].pc = "eval1"
               /\ task'[t].evals = 1
               /\ task'[t].sent_at = now
         /\ (task'[t].pc = "done" /\ task'[t].op = "get_token" /\ task'[t].force_new
               /\ task'[t].ret = "return") => task'[t].evals >= 1]_vars

\* a forced call in its evaluation while the cached token is valid
C3_Witness ==
    \E t \in Tasks :
        /\ task[t].pc = "eval1" /\ task[t].force_new
        /\ _is_token_valid
        /\ \A u \in Tasks \ {t} : task[u].pc = "idle"

(***************************************************************************)
(* C4: one get_token call evaluates the challenge script at most twice and *)
(* detects the site key at most once; when the retried evaluation fails    *)
(* too, the call returns None.                                             *)
(***************************************************************************)
C4_AtMostTwice ==
    \A t \in Tasks :
        /\ task[t].evals <= 2
        /\ task[t].detects <= 1
        /\ task[t].pc = "eval2" => task[t].evals = 2 /\ task[t].detects = 1
        /\ (task[t].pc = "done" /\ task[t].evals = 2 /\ ~GoodReply(task[t].reply)) =>
              /\ task[t].ret = "return"
              /\ task[t].value = PyNone
              /\ task[t].detects = 1

\* a call that has failed twice
C4_Witness ==
    \E t \in Tasks :
        /\ task[t].pc = "done" /\ task[t].op = "get_token"
        /\ task[t].evals = 2 /\ task[t].detects = 1
        /\ ~GoodReply(task[t].reply)
        /\ task[t].value = PyNone

(***************************************************************************)
(* C5: when an evaluation answers with a non-empty str and no exception,   *)
(* get_token returns that str, the cache holds it with the current time,   *)
(* and the validity check is true; any other answer leaves the cache as it *)
(* was.                                                                    *)
(***************************************************************************)
C5_StoreOnSuccess ==
    [][\A t \in Tasks :
         (task[t].pc \in {"eval1", "eval2"} /\ task'[t] # task[t]) =>
            IF GoodReply(task'[t].reply)
            THEN /\ task'[t].pc = "done"
                 /\ task'[t].ret = "return"
                 /\ task'[t].value = task'[t].reply.result.value
                 /\ _last_token' = task'[t].reply.result.value
                 /\ _token_timestamp' = PyFloat(now)
                 /\ _is_token_valid'
            ELSE UNCHANGED <<_last_token, _token_timestamp>>]_vars

\* a call that has just stored and returned the token of a good answer
C5_Witness ==
    \E t \in Tasks :
        /\ task[t].pc = "done" /\ task[t].op = "get_token"
        /\ GoodReply(task[t].reply)
        /\ task[t].value = task[t].reply.result.value
        /\ _last_token = task[t].value
        /\ _token_timestamp = PyFloat(now)

(***************************************************************************)
(* C6: once a stop() call has returned, the validity check is false and    *)
(* the active site key is the fallback key, whatever the state before.     *)
(* Calls are made one after the other (SeqSpec).                           *)
(***************************************************************************)
C6_StopResets ==
    \A t \in Tasks :
        (task[t].pc = "done" /\ task[t].op = "stop" /\ task[t].ret = "return") =>
            /\ ~_is_token_valid
            /\ _last_token = PyNone
            /\ _site_key = RECAPTCHA_SITE_KEY_FALLBACK

\* a stop() about to return on a session with a valid token and a detected key
C6_Witness ==
    \E t \in Tasks :
        /\ task[t].pc = "stop_wait"
        /\ _is_token_valid
        /\ _site_key # RECAPTCHA_SITE_KEY_FALLBACK

(***************************************************************************)
(* C7: the active site key is always the fallback key or a key longer than *)
(* 30 characters whose first character is 6.                               *)
(***************************************************************************)
C7_ActiveKeyFormat ==
    \/ _site_key = RECAPTCHA_SITE_KEY_FALLBACK
    \/ (Len(_site_key) > 30 /\ Head(_site_key) = "6")

\* a detected key of 31 characters is active
C7_Witness == _site_key = Key31

(***************************************************************************)
(* C8: get_token on a session that is not started raises the RuntimeError  *)
(* at once: no evaluation, no detection, no cached token served, and the   *)
(* cache and the site key stay as they were.                               *)
(***************************************************************************)
C8_NotStarted ==
    [][\A t \in Tasks :
         (Calls(t, "get_token") /\ ~Started) =>
            /\ task'[t].pc = "done"
            /\ task'[t].ret = "raise"
            /\ task'[t].value = PyStr("RuntimeError")
            /\ task'[t].evals = 0
            /\ task'[t].detects = 0
            /\ UNCHANGED <<browser, page, _last_token, _token_timestamp, _site_key>>]_vars

\* get_token has raised on a session whose browser runs but whose page never loaded
C8_Witness ==
    \E t \in Tasks :
        /\ task[t].pc = "done" /\ task[t].op = "get_token"
        /\ task[t].ret = "raise"
        /\ Truthy(browser) /\ ~Truthy(page)

(***************************************************************************)
(* C9: no get_token call stays suspended in a script evaluation for more   *)
(* than the ceiling of 30 time units.                                      *)
(***************************************************************************)
C9_EvaluationCeiling ==
    \A t \in Tasks :
        task[t].pc \in {"eval1", "eval2"} => now - task[t].sent_at <= TIMEOUT

(***************************************************************************)
(* C10, as stated: when both evaluations of a get_token call have failed,  *)
(* the call has returned None and no token is cached.                      *)
(***************************************************************************)
C10_NothingCached ==
    \A t \in Tasks :
        (task[t].pc = "done" /\ task[t].op = "get_token" /\ task[t].evals = 2
           /\ ~GoodReply(task[t].reply)) =>
            /\ task[t].value = PyNone
            /\ _last_token = PyNone

(***************************************************************************)
(* C10, amended: when both evaluations of a get_token call fail, the call  *)
(* returns None and stores nothing: the cached token and its timestamp are *)
(* left as they were, so a token an earlier call stored is still cached.   *)
(***************************************************************************)
C10_NothingStored ==
    [][\A t \in Tasks :
         /\ (task[t].pc \in {"eval1", "detect_js", "detect_html", "eval2"}
               /\ task'[t] # task[t] /\ ~GoodReply(task'[t].reply)) =>
                 UNCHANGED <<_last_token, _token_timestamp>>
         /\ (task[t].pc = "eval2" /\ task'[t] # task[t] /\ ~GoodReply(task'[t].reply)) =>
               /\ task'[t].pc = "done"
               /\ task'[t].ret = "return"
               /\ task'[t].value = PyNone
               /\ task'[t].evals = 2]_vars

\* a call has failed twice while an earlier token is still cached
C10_Witness ==
    \E t \in Tasks :
        /\ task[t].pc = "done" /\ task[t].op = "get_token"
        /\ task[t].evals = 2
        /\ ~GoodReply(task[t].reply)
        /\ task[t].value = PyNone
        /\ _last_token # PyNone

(***************************************************************************)
(* C16: get_token starts site-key detection only at the answer of a failed *)
(* first evaluation while the active key is the fallback key; a failed     *)
(* evaluation under a detected key ends the call with one evaluation, no   *)
(* detection and no retry.                                                 *)
(***************************************************************************)
C16_DetectionGate ==
    [][\A t \in Tasks :
          /\ task'[t].detects > task[t].detects =>
                /\ task[t].pc = "eval1"
                /\ TokenOf(task'[t].reply) = PyNone
                /\ _site_key = RECAPTCHA_SITE_KEY_FALLBACK
          /\ task'[t].pc \in {"detect_js", "detect_html"} =>
                task'[t].detects = 1
          /\ ( /\ task[t].pc = "eval1" /\ task'[t].pc # "eval1"
               /\ TokenOf(task'[t].reply) = PyNone
               /\ _site_key # RECAPTCHA_SITE_KEY_FALLBACK ) =>
                /\ task'[t].pc = "done" /\ task'[t].ret = "return"
                /\ task'[t].value = PyNone
                /\ task'[t].evals = 1 /\ task'[t].detects = 0
                /\ _site_key' = _site_key
    ]_vars

\* a call whose only evaluation failed under a detected key
C16_Witness ==
    \E t \in Tasks :
        /\ task[t].pc = "done" /\ task[t].op = "get_token"
        /\ task[t].reply # NoReply /\ TokenOf(task[t].reply) = PyNone
        /\ task[t].evals = 1 /\ task[t].detects = 0
        /\ _site_key # RECAPTCHA_SITE_KEY_FALLBACK

(***************************************************************************)
(* C19: nothing serializes get_token calls: a call on a started session    *)
(* that misses the cache sends its own evaluation at once, also while      *)
(* another call's evaluation is in flight on the same page, and an answer  *)
(* to one of two evaluations in flight leaves the other in flight.         *)
(***************************************************************************)
InFlight(t) == task[t].pc \in {"eval1", "eval2"}

C19_Overlap ==
    [][\A t \in Tasks :
          /\ ( /\ Calls(t, "get_token")
               /\ Started
               /\ task'[t].force_new \/ ~_is_token_valid ) =>
                /\ task'[t].pc = "eval1"
                /\ task'[t].evals = 1
                /\ task'[t].sent_at = now
          /\ \A u \in Tasks \ {t} :
                (InFlight(t) /\ InFlight(u) /\ task'[t] # task[t]) =>
                    task'[u] = task[u]
    ]_vars

\* two calls have both missed the cache and both have an evaluation in flight
C19_Witness ==
    /\ Started
    /\ ~_is_token_valid
    /\ \A t \in Tasks :
          /\ task[t].op = "get_token" /\ ~task[t].force_new
          /\ task[t].pc = "eval1" /\ task[t].evals = 1

(***************************************************************************)
(* C12: stop() on a session with no browser (stopped already, or never     *)
(* started) returns at once, changes no field and terminates nothing; with *)
(* calls made one after the other no more browsers are terminated than     *)
(* were launched, and once stop() has returned after one launch that       *)
(* browser has been terminated exactly once, however many stop() calls     *)
(* follow.                                                                 *)
(***************************************************************************)
C12_StopIdempotent ==
    [][\A t \in Tasks :
          /\ (Calls(t, "stop") /\ ~Truthy(browser)) =>
                /\ task'[t].pc = "done" /\ task'[t].ret = "return"
                /\ ~task'[t].stopped
                /\ UNCHANGED <<browser, page, _last_token, _token_timestamp, _site_key>>
                /\ UNCHANGED <<launched, terminated>>
          /\ terminated' <= launched'
          /\ ( /\ task'[t].pc = "done" /\ task'[t].op = "stop"
               /\ task'[t].ret = "return"
               /\ launched' = 1 ) => terminated' = 1
    ]_vars

\* a further stop() has returned after the one that terminated the only browser
C12_Witness ==
    \E t \in Tasks :
        /\ task[t].pc = "done" /\ task[t].op = "stop" /\ task[t].ret = "return"
        /\ ~task[t].stopped
        /\ launched = 1 /\ terminated = 1
        /\ browser = PyNone

(***************************************************************************)
(* C20: of the browsers one solver instance has launched, at most one has  *)
(* not been terminated, after any sequence of start() and stop() calls     *)
(* made one after the other.                                               *)
(***************************************************************************)
C20_OneLiveBrowser == launched - terminated <= 1

(***************************************************************************)
(* C17: when the evaluation with the fallback key has failed and detection *)
(* ends with a valid key K other than the fallback, K becomes the active   *)
(* key and the call sends its second, and last, evaluation, whose script   *)
(* holds K; a token answered to it is stored and returned.  When detection *)
(* ends with the fallback key the call returns None after its one          *)
(* evaluation.                                                             *)
(***************************************************************************)
Detecting(t) == task[t].pc \in {"detect_js", "detect_html"}

C17_RetryWithDetectedKey ==
    [][\A t \in Tasks :
          /\ (Detecting(t) /\ ~Detecting(t)') =>
                IF _site_key' # RECAPTCHA_SITE_KEY_FALLBACK
                THEN /\ ValidKey(_site_key')
                     /\ task'[t].pc = "eval2"
                     /\ task'[t].script_key = _site_key'
                     /\ task'[t].evals = 2
                     /\ task'[t].sent_at = now
                ELSE /\ task'[t].pc = "done" /\ task'[t].ret = "return"
                     /\ task'[t].value = PyNone
                     /\ task'[t].evals = 1
          /\ task'[t].pc = "eval2" => Detecting(t) \/ task[t].pc = "eval2"
          /\ (task[t].pc = "eval2" /\ task'[t].pc # "eval2") =>
                /\ task'[t].pc = "done" /\ task'[t].ret = "return"
                /\ task'[t].evals = 2
                /\ _site_key' = _site_key
                /\ GoodReply(task'[t].reply) =>
                      /\ task'[t].value = task'[t].reply.result.value
                      /\ _last_token' = task'[t].value
                      /\ _token_timestamp' = PyFloat(now)
    ]_vars

\* the retry with a detected key has succeeded and its token is cached
C17_Witness ==
    \E t \in Tasks :
        /\ task[t].pc = "done" /\ task[t].op = "get_token"
        /\ task[t].evals = 2 /\ task[t].detects = 1
        /\ GoodReply(task[t].reply)
        /\ _site_key # RECAPTCHA_SITE_KEY_FALLBACK
        /\ _last_token = task[t].value
        /\ _token_timestamp = PyFloat(now)

(***************************************************************************)
(* C14: what a failed get_token call returns tells the kind of failure.    *)
(***************************************************************************)
\* the kind of outcome an answer to the challenge script is
Kind(reply) ==
    IF reply = Raised("TimeoutError") THEN "timeout"
    ELSE IF reply.how = "raise" THEN "transport exception"
    ELSE IF Truthy(Unpack(reply)[2]) THEN "challenge library unavailable"
    ELSE IF GoodReply(reply) THEN "success"
    ELSE "empty result"

FailureKinds ==
    {"timeout", "challenge library unavailable", "transport exception", "empty result"}

\* caller t has the result of a get_token call whose last evaluation failed
Failed(t) ==
    /\ task[t].pc = "done" /\ task[t].op = "get_token" /\ task[t].ret = "return"
    /\ task[t].reply # NoReply
    /\ Kind(task[t].reply) \in FailureKinds

\* C14 as stated: the value a failed call returns differs from the value returned
\* for a failure of any other kind
C14_ReasonsDistinct ==
    \A t \in Tasks :
        Failed(t) =>
            \A r \in EvalReplies :
                (Kind(r) \in FailureKinds \ {Kind(task[t].reply)}) =>
                    TokenOf(r) # task[t].value

\* C14 amended: a failed get_token call returns None whatever the kind of failure
\* (timeout, challenge library unavailable, transport exception, empty result),
\* so the value returned does not tell the kinds apart
C14_FailuresAlike ==
    /\ FailureKinds = {Kind(r) : r \in EvalReplies} \ {"success"}
    /\ \A r \in EvalReplies : Kind(r) \in FailureKinds => TokenOf(r) = PyNone
    /\ \A t \in Tasks : Failed(t) => task[t].value = PyNone

\* a call that ended on a timeout has returned None
C14_Witness ==
    \E t \in Tasks :
        /\ Failed(t)
        /\ Kind(task[t].reply) = "timeout"
        /\ task[t].value = PyNone

(***************************************************************************)
(* C11: a fault in detection (an exception raised by either request, or an *)
(* answer of the wrong shape) is not propagated: detection ends normally,  *)
(* the get_token call returns a token or None and raises nothing, and when *)
(* neither method found a valid candidate the active key is the fallback.  *)
(***************************************************************************)
\* the answer to method 1 holds a valid key
JsValid(r) ==
    /\ r.how \in {"tuple", "single"}
    /\ r.how = "tuple" => r.exception = PyNone
    /\ r.result.type = "RemoteObject"
    /\ r.result.value.type = "str"
    /\ ValidKey(r.result.value.v)

\* the answer to method 2 is a page source
IsSource(r) ==
    /\ r.how \in {"tuple", "single"}
    /\ r.how = "tuple" => r.exception = PyNone
    /\ r.result.type = "RemoteObject"
    /\ r.result.value.type = "str"

\* the patterns that match the source, and those whose candidate is valid
Matching(ms) == {i \in 1..NumPatterns : ms[i].matched}
ValidAt(ms) ==
    {i \in Matching(ms) : ValidKey(IF ms[i].lastindex = 0 THEN ms[i].g0 ELSE ms[i].g1)}
HtmlValid(r) == IsSource(r) /\ ValidAt(r.result.value.matches) # {}

Least(S) == CHOOSE i \in S : \A j \in S : i <= j

C11_DetectionAbsorbed ==
    [][\A t \in Tasks :
          /\ (task[t].pc \in {"eval1", "detect_js", "detect_html", "eval2"}
                 /\ task'[t].pc = "done") =>
                /\ task'[t].ret = "return"
                /\ task'[t].value = PyNone \/ IsToken(task'[t].value)
          /\ (Detecting(t) /\ ~Detecting(t)') =>
                /\ task'[t].pc \in {"eval2", "done"}
                /\ (~JsValid(task'[t].js_reply) /\ ~HtmlValid(task'[t].html_reply)) =>
                      /\ _site_key' = RECAPTCHA_SITE_KEY_FALLBACK
                      /\ task'[t].pc = "done"
                      /\ task'[t].value = PyNone
    ]_vars

\* both requests of detection raised, and the call has returned None under the fallback key
C11_Witness ==
    \E t \in Tasks :
        /\ task[t].pc = "done" /\ task[t].op = "get_token" /\ task[t].ret = "return"
        /\ task[t].js_reply = Raised("Exception")
        /\ task[t].html_reply = Raised("Exception")
        /\ task[t].value = PyNone
        /\ _site_key = RECAPTCHA_SITE_KEY_FALLBACK

(***************************************************************************)
(* C18: the five patterns are tried in their order over the page source    *)
(* and the first that matches decides.                                     *)
(***************************************************************************)
\* detection method 2 has just ended for caller t on a page source
Scanned(t) ==
    /\ task[t].pc = "detect_html" /\ task'[t].pc # "detect_html"
    /\ IsSource(task'[t].html_reply)

\* C18 as stated: the candidate of the first pattern that matches is the only one
\* considered, so the active key is that candidate if it is valid, else the fallback
C18_FirstMatchDecides ==
    [][\A t \in Tasks :
          Scanned(t) =>
              LET ms == task'[t].html_reply.result.value.matches
              IN  IF Matching(ms) = {}
                  THEN _site_key' = RECAPTCHA_SITE_KEY_FALLBACK
                  ELSE LET m == ms[Least(Matching(ms))]
                           c == IF m.lastindex = 0 THEN m.g0 ELSE m.g1
                       IN  _site_key' = IF ValidKey(c) THEN c ELSE RECAPTCHA_SITE_KEY_FALLBACK
    ]_vars

\* C18 amended: the patterns are tried in their order and the first whose candidate
\* (the captured group if the pattern has one, else the whole match) passes the
\* validation decides: a pattern that matches with an invalid candidate is passed
\* over and later patterns are consulted; with no valid candidate the fallback is
\* the active key
C18_FirstValidDecides ==
    [][\A t \in Tasks :
          Scanned(t) =>
              LET ms == task'[t].html_reply.result.value.matches
              IN  IF ValidAt(ms) = {}
                  THEN _site_key' = RECAPTCHA_SITE_KEY_FALLBACK
                  ELSE LET m == ms[Least(ValidAt(ms))]
                       IN  _site_key' = IF m.lastindex = 0 THEN m.g0 ELSE m.g1
    ]_vars

\* the first pattern that matched had an invalid candidate and a later pattern's
\* valid candidate is the active key
C18_Witness ==
    \E t \in Tasks :
        /\ task[t].pc = "eval2"
        /\ IsSource(task[t].html_reply)
        /\ LET ms == task[t].html_reply.result.value.matches
           IN  /\ ValidAt(ms) # {}
               /\ Least(Matching(ms)) < Least(ValidAt(ms))
               /\ _site_key = ms[Least(ValidAt(ms))].g1
               /\ _site_key # RECAPTCHA_SITE_KEY_FALLBACK

(***************************************************************************)
(* C13: when an "async with RecaptchaSolver()" block has ended, by         *)
(* whatever path, every browser that start() launched has been terminated  *)
(* by stop(), once.                                                        *)
(***************************************************************************)
C13_ScopeReleases == scope = "ended" => terminated = launched

(***************************************************************************)
(* C15: check_balance_async raises nothing to its caller.  A get_token     *)
(* that raises (the solver is not started), a start() that raises and a    *)
(* missing token give an error record with a message and no HTTP request;  *)
(* a request that raises, a status other than 200, a body that is not the  *)
(* expected JSON and an error payload give an error record with a message. *)
(***************************************************************************)
\* the response is a 200 whose body is a dict flagged success with step parameters
\* that _parse_response can read
WellFormed(r) ==
    /\ r.how = "response"
    /\ r.status_code = 200
    /\ r.body.kind = "dict"
    /\ r.body.success = PyBool(TRUE)
    /\ r.body.data.type = "dict"
    /\ r.body.data.v.stepParameters \in {PyList(<<GoodItem>>), PyList(<<>>)}

C15_NoPropagation ==
    [][\A t \in Tasks :
          (check.at = "token" /\ check'.at = "returned" /\ task[t].pc = "done") =>
              /\ check'.how = "return"
              /\ check'.status \in {"error", "success"}
              /\ check'.status = "error" => check'.error # <<>>
              /\ (task[t].ret = "raise" \/ ~IsToken(task[t].value)) =>
                    /\ check'.status = "error"
                    /\ check'.posts = 0
                    /\ check'.response = NoReply
              /\ (task[t].ret = "return" /\ IsToken(task[t].value)) =>
                    /\ check'.posts = 1
                    /\ check'.response \in Responses
                    /\ check'.status = "success" <=> WellFormed(check'.response)
    ]_vars

\* a call has returned the error record of a missing token without sending a request
C15_Witness ==
    /\ check.at = "returned"
    /\ check.status = "error"
    /\ check.error = <<"Failed to get reCAPTCHA token">>
    /\ check.posts = 0

(***************************************************************************)
(* C21: whenever the session is stopped (self.browser is None) no token is *)
(* cached and the active site key is the fallback, also when stop()        *)
(* overlaps a get_token call suspended in an evaluation or in detection.   *)
(***************************************************************************)
C21_StoppedIsClean ==
    browser = PyNone =>
        /\ _last_token = PyNone
        /\ _token_timestamp = PyNone
        /\ _site_key = RECAPTCHA_SITE_KEY_FALLBACK

(***************************************************************************)
(* C22: a detected site key stays the active key until stop() resets it.   *)
(***************************************************************************)
\* stop() clears the fields in this step
Stops == \E t \in Tasks : task[t].pc = "stop_wait" /\ task'[t].stopped

\* C22 as stated: while a key other than the fallback is active, no step but the
\* reset of stop() changes the active key
C22_KeyStays ==
    [][(_site_key # RECAPTCHA_SITE_KEY_FALLBACK /\ ~Stops) => _site_key' = _site_key]_vars

====
